---- MODULE Spec2Model ----
(***************************************************************************)
(* Model of construct_Fock_operators.py: the anticommutation sign          *)
(* (_anticommutation_factor), the creation operator builder (creation),    *)
(* its adjoint (annihilation) and the product of both (transition).        *)
(*                                                                         *)
(* Every function is executed statement by statement on an explicit call   *)
(* stack.  A client calls the functions, keeps up to two results and       *)
(* then drops them.  Python integers are unbounded, so no width is         *)
(* imposed on the arithmetic.                                              *)
(***************************************************************************)
EXTENDS Integers, Sequences, FiniteSets, TLC

\* Largest valid basis_size the client passes.
MaxN == 3
\* How far below 0 and above basis_size the client's invalid arguments go.
BadMargin == 1
\* Direct calls of _anticommutation_factor use states 0 .. 2^MaxBits - 1 ...
MaxBits == 3
\* ... and positions 0 .. MaxPos.
MaxPos == 4

VARIABLES
    pc,                        \* the statement executed next
    stack,                     \* return points of the callers, outermost first
    ret,                       \* the value returned or the exception raised
    call,                      \* the client's call in progress
    regs,                      \* the results the client holds
    basis_size,                \* parameter of creation/annihilation/transition
    state_index,               \* parameter of creation/annihilation
    out_state,                 \* parameter of transition
    in_state,                  \* parameter of transition
    left_operand,              \* transition: value of creation(...) in line 76
    many_particle_basis_size,  \* creation, line 42
    temp_matrix,               \* creation, line 43
    single_particle_state_mask,\* creation, line 45
    state_to_act_on,           \* creation, line 47
    many_particle_state,       \* parameter of _anticommutation_factor
    initial_position,          \* parameter of _anticommutation_factor
    final_position,            \* parameter of _anticommutation_factor
    mask,                      \* _anticommutation_factor, line 25
    intermediate_states,       \* _anticommutation_factor, line 26
    sign_factor                \* _anticommutation_factor, line 27

vars == <<pc, stack, ret, call, regs, basis_size, state_index, out_state,
          in_state, left_operand, many_particle_basis_size, temp_matrix,
          single_particle_state_mask, state_to_act_on, many_particle_state,
          initial_position, final_position, mask, intermediate_states,
          sign_factor>>

creation_vars == <<many_particle_basis_size, temp_matrix,
                   single_particle_state_mask, state_to_act_on>>

phase_vars == <<many_particle_state, initial_position, final_position, mask,
                intermediate_states, sign_factor>>

param_vars == <<basis_size, state_index, out_state, in_state, left_operand>>

(***************************************************************************)
(* Python's integer operators on unbounded two's complement integers.      *)
(***************************************************************************)
Max(a, b) == IF a >= b THEN a ELSE b

Min(a, b) == IF a <= b THEN a ELSE b

\* ~x
BitNot(x) == 0 - x - 1

\* x << k, for k >= 0 (a negative k raises ValueError, see CreationBegin)
ShiftLeft(x, k) == x * (2 ^ k)

\* x >> k, for k >= 0: the floor of x / 2^k
ShiftRight(x, k) == x \div (2 ^ k)

\* x & y
RECURSIVE BitAnd(_, _)
BitAnd(x, y) ==
    IF x = 0 \/ y = 0 THEN 0
    ELSE IF x = -1 THEN y
    ELSE IF y = -1 THEN x
    ELSE (x % 2) * (y % 2) + 2 * BitAnd(x \div 2, y \div 2)

\* x | y
RECURSIVE BitOr(_, _)
BitOr(x, y) ==
    IF x = 0 THEN y
    ELSE IF y = 0 THEN x
    ELSE IF x = -1 \/ y = -1 THEN -1
    ELSE Max(x % 2, y % 2) + 2 * BitOr(x \div 2, y \div 2)

(***************************************************************************)
(* Values passed between frames.                                           *)
(***************************************************************************)
NoMatrix == [format |-> "none"]

NoValue == [kind |-> "none", int |-> 0, mat |-> NoMatrix, exc |-> ""]

IntValue(v) == [kind |-> "int", int |-> v, mat |-> NoMatrix, exc |-> ""]

MatValue(m) == [kind |-> "matrix", int |-> 0, mat |-> m, exc |-> ""]

Exception(e) == [kind |-> "exc", int |-> 0, mat |-> NoMatrix, exc |-> e]

NoCall == [op |-> "none", args |-> <<>>]

Top(s) == s[Len(s)]

Pop(s) == SubSeq(s, 1, Len(s) - 1)

(***************************************************************************)
(* _anticommutation_factor, lines 14-32.                                   *)
(***************************************************************************)
\* faulty variant of WindowMask: the window is one position too wide
WindowMask_TooWide(hi, lo) == BitNot(ShiftLeft(-1, hi - lo + 1))

\* line 25: mask = ~(-1 << (initial_position - final_position))
WindowMask(hi, lo) == BitNot(ShiftLeft(-1, hi - lo))

\* faulty variant of IntermediateStates: the state is not shifted to final_position
IntermediateStates_NoShift(s, lo, m) == BitAnd(s, m)

\* line 26: (many_particle_state >> final_position) & mask
IntermediateStates(s, lo, m) == BitAnd(ShiftRight(s, lo), m)

\* faulty variant of NextSignFactor: an occupied state does not flip the sign
NextSignFactor_NeverFlips(sf, is) == sf

\* lines 29-30: if 1 & intermediate_states: sign_factor *= -1
NextSignFactor(sf, is) == IF BitAnd(1, is) # 0 THEN sf * (-1) ELSE sf

\* lines 24-27
PhaseBegin ==
    /\ pc = "phase_24"
    /\ LET hi == Max(initial_position, final_position)
           lo == Min(initial_position, final_position)
           m  == WindowMask(hi, lo)
       IN /\ initial_position' = hi
          /\ final_position' = lo
          /\ mask' = m
          /\ intermediate_states' = IntermediateStates(many_particle_state, lo, m)
    /\ sign_factor' = 1
    /\ pc' = "phase_28"
    /\ UNCHANGED <<stack, ret, call, regs, param_vars, creation_vars,
                   many_particle_state>>

\* lines 28-31: one iteration of the while loop
PhaseLoop ==
    /\ pc = "phase_28"
    /\ intermediate_states # 0
    /\ sign_factor' = NextSignFactor(sign_factor, intermediate_states)
    /\ intermediate_states' = ShiftRight(intermediate_states, 1)
    /\ UNCHANGED <<pc, stack, ret, call, regs, param_vars, creation_vars,
                   many_particle_state, initial_position, final_position,
                   mask>>

\* line 32: the loop has ended; the frame is dropped
PhaseReturn ==
    /\ pc = "phase_28"
    /\ intermediate_states = 0
    /\ ret' = IntValue(sign_factor)
    /\ pc' = "return"
    /\ many_particle_state' = 0
    /\ initial_position' = 0
    /\ final_position' = 0
    /\ mask' = 0
    /\ intermediate_states' = 0
    /\ sign_factor' = 0
    /\ UNCHANGED <<stack, call, regs, param_vars, creation_vars>>

(***************************************************************************)
(* scipy.sparse matrices.  A dok_matrix is a shape and a dictionary from   *)
(* (row, column) to value.  A csc_matrix is a shape and the three arrays   *)
(* indptr, indices, data: column j holds the entries indptr[j] ..          *)
(* indptr[j+1]-1, with their rows in indices, sorted.  A csr_matrix is the *)
(* same by rows.  Sequences are 1-based, so the Python indptr[j] is        *)
(* indptr[j + 1] here.                                                     *)
(***************************************************************************)
\* spr.dok_matrix((n, m)), line 43
DokMatrix(n, m) == [format |-> "dok", shape |-> <<n, m>>, d |-> <<>>]

\* faulty variant of DokIndexOK: the dictionary takes any key
DokIndexOK_Unchecked(D, r, c) == TRUE

\* whether temp_matrix[r, c] addresses an entry (negative indices wrap)
DokIndexOK(D, r, c) ==
    /\ 0 - D.shape[1] <= r /\ r < D.shape[1]
    /\ 0 - D.shape[2] <= c /\ c < D.shape[2]

\* temp_matrix[r, c] = v, line 49, for an index in range; a zero is not stored
DokSetItem(D, r, c, v) ==
    LET rr == IF r < 0 THEN r + D.shape[1] ELSE r
        cc == IF c < 0 THEN c + D.shape[2] ELSE c
    IN [D EXCEPT !.d = IF v = 0
                       THEN [k \in (DOMAIN D.d) \ {<<rr, cc>>} |-> D.d[k]]
                       ELSE (<<rr, cc>> :> v) @@ D.d]

\* the triples <<row, column, value>> of S, by increasing row
RECURSIVE SortByRow(_)
SortByRow(S) ==
    IF S = {} THEN <<>>
    ELSE LET t == CHOOSE x \in S : \A y \in S : x[1] <= y[1]
         IN <<t>> \o SortByRow(S \ {t})

\* the triples of T in column-major order, from column c on
RECURSIVE ColumnMajor(_, _, _)
ColumnMajor(T, c, ncols) ==
    IF c >= ncols THEN <<>>
    ELSE SortByRow({t \in T : t[2] = c}) \o ColumnMajor(T, c + 1, ncols)

\* the csc_matrix holding the triples T (one per position)
CscMatrix(shape, T) ==
    LET all == ColumnMajor(T, 0, shape[2])
    IN [format  |-> "csc",
        shape   |-> shape,
        indptr  |-> [j \in 1 .. (shape[2] + 1) |->
                        Cardinality({t \in T : t[2] < j - 1})],
        indices |-> [k \in 1 .. Len(all) |-> all[k][1]],
        data    |-> [k \in 1 .. Len(all) |-> all[k][3]]]

\* temp_matrix.tocsc(), line 53
Tocsc(D) == CscMatrix(D.shape, {<<k[1], k[2], D.d[k]>> : k \in DOMAIN D.d})

\* faulty variant of GetH: the adjoint is forgotten
GetH_Forgotten(M) == M

\* M.getH() of a csc_matrix, line 63: the conjugate transpose, which is the
\* csr_matrix over the same arrays (the values are real)
GetH(M) ==
    [format  |-> "csr",
     shape   |-> <<M.shape[2], M.shape[1]>>,
     indptr  |-> M.indptr,
     indices |-> M.indices,
     data    |-> M.data]

\* M[r, c] of a csc_matrix or csr_matrix
Entry(M, r, c) ==
    LET major == IF M.format = "csc" THEN c ELSE r
        minor == IF M.format = "csc" THEN r ELSE c
        hits  == {k \in (M.indptr[major + 1] + 1) .. M.indptr[major + 2] :
                     M.indices[k] = minor}
    IN IF hits = {} THEN 0 ELSE M.data[CHOOSE k \in hits : TRUE]

\* sum over j = 0 .. k of A[r, j] * B[j, c]
RECURSIVE DotSum(_, _, _, _, _)
DotSum(A, B, r, c, k) ==
    IF k < 0 THEN 0
    ELSE Entry(A, r, k) * Entry(B, k, c) + DotSum(A, B, r, c, k - 1)

\* faulty variant of MatMul: the elementwise product
MatMul_Elementwise(A, B) ==
    CscMatrix(<<A.shape[1], B.shape[2]>>,
              {t \in {<<r, c, Entry(A, r, c) * Entry(B, r, c)>> :
                         r \in 0 .. (A.shape[1] - 1), c \in 0 .. (B.shape[2] - 1)} :
                  t[3] # 0})

\* the csr_matrix holding the triples T
CsrMatrix(shape, T) ==
    LET M == CscMatrix(<<shape[2], shape[1]>>, {<<t[2], t[1], t[3]>> : t \in T})
    IN [M EXCEPT !.format = "csr", !.shape = shape]

\* A * B of two sparse matrices with A.shape[1] = B.shape[0], line 76: the
\* matrix product, in the format of the left operand
MatMul(A, B) ==
    LET all == {<<r, c, DotSum(A, B, r, c, A.shape[2] - 1)>> :
                   r \in 0 .. (A.shape[1] - 1), c \in 0 .. (B.shape[2] - 1)}
        nz  == {t \in all : t[3] # 0}
    IN IF A.format = "csr"
       THEN CsrMatrix(<<A.shape[1], B.shape[2]>>, nz)
       ELSE CscMatrix(<<A.shape[1], B.shape[2]>>, nz)

(***************************************************************************)
(* creation, lines 35-53.                                                  *)
(***************************************************************************)
\* faulty variant of UnoccupiedTest: the test is inverted
UnoccupiedTest_Inverted(c, m) == BitAnd(c, m)

\* line 48: ~state_to_act_on & single_particle_state_mask
UnoccupiedTest(c, m) == BitAnd(BitNot(c), m)

\* faulty variant of TargetRow: the source state is dropped
TargetRow_MaskOnly(c, m) == m

\* line 49: state_to_act_on | single_particle_state_mask
TargetRow(c, m) == BitOr(c, m)

\* faulty variant of AnticommutationArgs: the occupied states below are counted
AnticommutationArgs_FromBelow(c, N, i) == <<c, 0, i - 1>>

\* line 50: the arguments of _anticommutation_factor
AnticommutationArgs(c, N, i) == <<c, N, i>>

DropCreationFrame ==
    /\ many_particle_basis_size' = 0
    /\ temp_matrix' = NoMatrix
    /\ single_particle_state_mask' = 0
    /\ state_to_act_on' = 0

\* lines 42-45 (and 47 for a negative basis_size).  2**basis_size is a float
\* for basis_size < 0.  Either dok_matrix refuses it as a dimension
\* (TypeError), or, where the scipy at hand reads the pair of floats as data,
\* line 45 raises ValueError for a negative shift count and otherwise
\* range(many_particle_basis_size) in line 47 raises TypeError.  For
\* basis_size >= 0, 1 << (state_index-1) with a negative count raises
\* ValueError.
CreationBegin ==
    /\ pc = "creation_42"
    /\ IF basis_size < 0
       THEN /\ pc' = "raise"
            /\ \/ ret' = Exception("TypeError")
               \/ /\ state_index - 1 < 0
                  /\ ret' = Exception("ValueError")
            /\ DropCreationFrame
       ELSE IF state_index - 1 < 0
       THEN /\ pc' = "raise"
            /\ ret' = Exception("ValueError")
            /\ DropCreationFrame
       ELSE /\ many_particle_basis_size' = 2 ^ basis_size
            /\ temp_matrix' = DokMatrix(2 ^ basis_size, 2 ^ basis_size)
            /\ single_particle_state_mask' = ShiftLeft(1, state_index - 1)
            /\ state_to_act_on' = 0
            /\ pc' = "creation_47"
            /\ UNCHANGED ret
    /\ UNCHANGED <<stack, call, regs, param_vars, phase_vars>>

\* lines 47-50: the single particle state is free in state_to_act_on, and
\* _anticommutation_factor is called
CreationCallPhase ==
    /\ pc = "creation_47"
    /\ state_to_act_on < many_particle_basis_size
    /\ UnoccupiedTest(state_to_act_on, single_particle_state_mask) # 0
    /\ LET a == AnticommutationArgs(state_to_act_on, basis_size, state_index)
       IN /\ many_particle_state' = a[1]
          /\ initial_position' = a[2]
          /\ final_position' = a[3]
    /\ stack' = Append(stack, "creation_49")
    /\ pc' = "phase_24"
    /\ UNCHANGED <<ret, call, regs, param_vars, creation_vars, mask,
                   intermediate_states, sign_factor>>

\* lines 47-48: the single particle state is occupied, nothing is written
CreationSkip ==
    /\ pc = "creation_47"
    /\ state_to_act_on < many_particle_basis_size
    /\ UnoccupiedTest(state_to_act_on, single_particle_state_mask) = 0
    /\ state_to_act_on' = state_to_act_on + 1
    /\ UNCHANGED <<pc, stack, ret, call, regs, param_vars, phase_vars,
                   many_particle_basis_size, temp_matrix,
                   single_particle_state_mask>>

\* line 49: the sign is back and is written; an index outside the matrix
\* raises IndexError
CreationWrite ==
    /\ pc = "return"
    /\ Top(stack) = "creation_49"
    /\ stack' = Pop(stack)
    /\ LET r == TargetRow(state_to_act_on, single_particle_state_mask)
       IN IF DokIndexOK(temp_matrix, r, state_to_act_on)
          THEN /\ temp_matrix' = DokSetItem(temp_matrix, r, state_to_act_on, ret.int)
               /\ state_to_act_on' = state_to_act_on + 1
               /\ pc' = "creation_47"
               /\ ret' = NoValue
               /\ UNCHANGED <<many_particle_basis_size, single_particle_state_mask>>
          ELSE /\ pc' = "raise"
               /\ ret' = Exception("IndexError")
               /\ DropCreationFrame
    /\ UNCHANGED <<call, regs, param_vars, phase_vars>>

\* line 47: range(many_particle_basis_size) is exhausted
CreationLoopEnd ==
    /\ pc = "creation_47"
    /\ state_to_act_on >= many_particle_basis_size
    /\ pc' = "creation_53"
    /\ UNCHANGED <<stack, ret, call, regs, param_vars, creation_vars, phase_vars>>

\* line 53
CreationReturn ==
    /\ pc = "creation_53"
    /\ ret' = MatValue(Tocsc(temp_matrix))
    /\ pc' = "return"
    /\ DropCreationFrame
    /\ UNCHANGED <<stack, call, regs, param_vars, phase_vars>>

(***************************************************************************)
(* annihilation, lines 56-63.                                              *)
(***************************************************************************)
\* line 63: creation(basis_size, state_index) is called
AnnihilationCallCreation ==
    /\ pc = "annihilation_63"
    /\ stack' = Append(stack, "annihilation_63")
    /\ pc' = "creation_42"
    /\ UNCHANGED <<ret, call, regs, param_vars, creation_vars, phase_vars>>

\* line 63: .getH() of the matrix creation returned
AnnihilationReturn ==
    /\ pc = "return"
    /\ Top(stack) = "annihilation_63"
    /\ stack' = Pop(stack)
    /\ ret' = MatValue(GetH(ret.mat))
    /\ UNCHANGED <<pc, call, regs, param_vars, creation_vars, phase_vars>>

(***************************************************************************)
(* transition, lines 66-76.                                                *)
(***************************************************************************)
\* faulty variant of TransitionProduct: the operands are swapped
TransitionProduct_Swapped(left, right) == MatMul(right, left)

\* line 76: creation(...) * annihilation(...)
TransitionProduct(left, right) == MatMul(left, right)

\* line 76: the left operand, creation(basis_size, out_state), is called
TransitionCallCreation ==
    /\ pc = "transition_76"
    /\ state_index' = out_state
    /\ stack' = Append(stack, "transition_76_left")
    /\ pc' = "creation_42"
    /\ UNCHANGED <<ret, call, regs, basis_size, out_state, in_state,
                   left_operand, creation_vars, phase_vars>>

\* line 76: the right operand, annihilation(basis_size, in_state), is called
TransitionCallAnnihilation ==
    /\ pc = "return"
    /\ Top(stack) = "transition_76_left"
    /\ left_operand' = ret.mat
    /\ ret' = NoValue
    /\ state_index' = in_state
    /\ stack' = Append(Pop(stack), "transition_76_right")
    /\ pc' = "annihilation_63"
    /\ UNCHANGED <<call, regs, basis_size, out_state, in_state,
                   creation_vars, phase_vars>>

\* line 76: the product of the two operands
TransitionReturn ==
    /\ pc = "return"
    /\ Top(stack) = "transition_76_right"
    /\ stack' = Pop(stack)
    /\ ret' = MatValue(TransitionProduct(left_operand, ret.mat))
    /\ left_operand' = NoMatrix
    /\ UNCHANGED <<pc, call, regs, basis_size, state_index, out_state,
                   in_state, creation_vars, phase_vars>>

\* No function catches anything: an exception leaves the caller's frame too.
Unwind ==
    /\ pc = "raise"
    /\ Top(stack) # "client"
    /\ stack' = Pop(stack)
    /\ left_operand' = NoMatrix
    /\ UNCHANGED <<pc, ret, call, regs, basis_size, state_index, out_state,
                   in_state, creation_vars, phase_vars>>

(***************************************************************************)
(* The client.                                                             *)
(***************************************************************************)
States == 0 .. (2 ^ MaxBits - 1)

Positions == 0 .. MaxPos

\* bit k of the non-negative integer s
Bit(s, k) == (s \div (2 ^ k)) % 2

SameWindow(s, t, a, b) ==
    \A k \in Min(a, b) .. (Max(a, b) - 1) : Bit(s, k) = Bit(t, k)

\* A direct call of _anticommutation_factor(s, a, b).  A second call either
\* swaps the positions or changes the state outside the window only.
ClientCallPhase ==
    /\ pc = "idle"
    /\ \E s \in States, a, b \in Positions :
          /\ \/ regs = <<>>
             \/ /\ Len(regs) = 1
                /\ regs[1].op = "phase"
                /\ \/ <<s, a, b>> = <<regs[1].args[1], regs[1].args[3], regs[1].args[2]>>
                   \/ /\ a = regs[1].args[2]
                      /\ b = regs[1].args[3]
                      /\ s # regs[1].args[1]
                      /\ SameWindow(s, regs[1].args[1], a, b)
          /\ call' = [op |-> "phase", args |-> <<s, a, b>>]
          /\ many_particle_state' = s
          /\ initial_position' = a
          /\ final_position' = b
    /\ stack' = <<"client">>
    /\ pc' = "phase_24"
    /\ UNCHANGED <<ret, regs, param_vars, creation_vars, mask,
                   intermediate_states, sign_factor>>

\* the values the client passes as basis_size, valid and invalid
BasisSizes == (0 - BadMargin) .. MaxN

\* the values the client passes as a state index with basis_size N
Indices(N) == (0 - BadMargin) .. (Max(N, 0) + BadMargin)

MatrixOps == {"creation", "annihilation", "transition"}

\* The client combines matrices of one basis_size only.
MatrixCallAllowed(N) ==
    \/ regs = <<>>
    \/ /\ Len(regs) = 1
       /\ regs[1].op \in MatrixOps
       /\ regs[1].status = "ok"
       /\ regs[1].args[1] = N

ClientCallCreation ==
    /\ pc = "idle"
    /\ \E N \in BasisSizes : \E i \in Indices(N) :
          /\ MatrixCallAllowed(N)
          /\ call' = [op |-> "creation", args |-> <<N, i>>]
          /\ basis_size' = N
          /\ state_index' = i
    /\ stack' = <<"client">>
    /\ pc' = "creation_42"
    /\ UNCHANGED <<ret, regs, out_state, in_state, left_operand,
                   creation_vars, phase_vars>>

ClientCallAnnihilation ==
    /\ pc = "idle"
    /\ \E N \in BasisSizes : \E i \in Indices(N) :
          /\ MatrixCallAllowed(N)
          /\ call' = [op |-> "annihilation", args |-> <<N, i>>]
          /\ basis_size' = N
          /\ state_index' = i
    /\ stack' = <<"client">>
    /\ pc' = "annihilation_63"
    /\ UNCHANGED <<ret, regs, out_state, in_state, left_operand,
                   creation_vars, phase_vars>>

ClientCallTransition ==
    /\ pc = "idle"
    /\ \E N \in BasisSizes : \E o, i \in Indices(N) :
          /\ MatrixCallAllowed(N)
          /\ call' = [op |-> "transition", args |-> <<N, o, i>>]
          /\ basis_size' = N
          /\ out_state' = o
          /\ in_state' = i
    /\ stack' = <<"client">>
    /\ pc' = "transition_76"
    /\ UNCHANGED <<ret, regs, state_index, left_operand, creation_vars,
                   phase_vars>>

\* The call has returned or raised: the client keeps the outcome.
ClientKeep ==
    /\ pc \in {"return", "raise"}
    /\ stack = <<"client">>
    /\ regs' = Append(regs, [op |-> call.op, args |-> call.args,
                             status |-> IF pc = "return" THEN "ok" ELSE "raised",
                             int |-> ret.int, mat |-> ret.mat, exc |-> ret.exc])
    /\ pc' = "idle"
    /\ stack' = <<>>
    /\ ret' = NoValue
    /\ call' = NoCall
    /\ basis_size' = 0
    /\ state_index' = 0
    /\ out_state' = 0
    /\ in_state' = 0
    /\ UNCHANGED <<left_operand, creation_vars, phase_vars>>

\* The client drops the results it holds.
ClientReset ==
    /\ pc = "idle"
    /\ regs # <<>>
    /\ regs' = <<>>
    /\ UNCHANGED <<pc, stack, ret, call, param_vars, creation_vars, phase_vars>>

(***************************************************************************)
(* Specifications.                                                         *)
(***************************************************************************)
Init ==
    /\ pc = "idle"
    /\ stack = <<>>
    /\ ret = NoValue
    /\ call = NoCall
    /\ regs = <<>>
    /\ basis_size = 0
    /\ state_index = 0
    /\ out_state = 0
    /\ in_state = 0
    /\ left_operand = NoMatrix
    /\ many_particle_basis_size = 0
    /\ temp_matrix = NoMatrix
    /\ single_particle_state_mask = 0
    /\ state_to_act_on = 0
    /\ many_particle_state = 0
    /\ initial_position = 0
    /\ final_position = 0
    /\ mask = 0
    /\ intermediate_states = 0
    /\ sign_factor = 0

PhaseNext ==
    \/ ClientCallPhase
    \/ PhaseBegin
    \/ PhaseLoop
    \/ PhaseReturn
    \/ ClientKeep
    \/ ClientReset

Next ==
    \/ ClientCallPhase
    \/ ClientCallCreation
    \/ ClientCallAnnihilation
    \/ ClientCallTransition
    \/ PhaseBegin
    \/ PhaseLoop
    \/ PhaseReturn
    \/ CreationBegin
    \/ CreationCallPhase
    \/ CreationSkip
    \/ CreationWrite
    \/ CreationLoopEnd
    \/ CreationReturn
    \/ AnnihilationCallCreation
    \/ AnnihilationReturn
    \/ TransitionCallCreation
    \/ TransitionCallAnnihilation
    \/ TransitionReturn
    \/ Unwind
    \/ ClientKeep
    \/ ClientReset

Spec == Init /\ [][Next]_vars

\* Only direct calls of _anticommutation_factor.  The interpreter keeps
\* executing a started call, hence the fairness of its steps; the client
\* need not call at all.
PhaseSpec ==
    /\ Init
    /\ [][PhaseNext]_vars
    /\ WF_vars(PhaseBegin \/ PhaseLoop \/ PhaseReturn \/ ClientKeep)

(***************************************************************************)
(* What the claims speak of.                                               *)
(***************************************************************************)
\* regs[k] is the matrix that a call of op returned
Returned(k, op) ==
    /\ k \in DOMAIN regs
    /\ regs[k].op = op
    /\ regs[k].status = "ok"

\* the results the client holds once its call has ended
Held == IF pc = "idle" THEN DOMAIN regs ELSE {}

\* N >= 1 and i in [1, N]
ValidArgs(N, i) == N >= 1 /\ i \in 1 .. N

\* single particle state i (1-based) is occupied in many particle state s
Occupied(s, i) == Bit(s, i - 1) = 1

Rows(M) == 0 .. (M.shape[1] - 1)

Cols(M) == 0 .. (M.shape[2] - 1)

\* the nonzero entries of M, as triples <<row, column, value>>
Nonzeros(M) ==
    {t \in {<<r, c, Entry(M, r, c)>> : r \in Rows(M), c \in Cols(M)} : t[3] # 0}

\* the rows of column c that hold a nonzero entry
NonzeroRows(M, c) == {r \in Rows(M) : Entry(M, r, c) # 0}

Square(M, N) == M.shape = <<2 ^ N, 2 ^ N>>

\* (-1)^(number of set bits of s at positions lo .. hi-1)
WindowParitySign(s, lo, hi) ==
    IF Cardinality({k \in lo .. (hi - 1) : Bit(s, k) = 1}) % 2 = 1 THEN -1 ELSE 1

(***************************************************************************)
(* C1.                                                                     *)
(***************************************************************************)
\* C1: for N >= 1 and i, j in [1, N], creation(N,i)*annihilation(N,j) +
\* annihilation(N,j)*creation(N,i) is the 2^N x 2^N identity if i = j and the
\* 2^N x 2^N zero matrix if i # j.
C1_CanonicalAnticommutation ==
    (Len(regs) = 2 /\ Returned(1, "creation") /\ Returned(2, "annihilation")) =>
        LET N  == regs[1].args[1]
            i  == regs[1].args[2]
            j  == regs[2].args[2]
            CA == MatMul(regs[1].mat, regs[2].mat)
            AC == MatMul(regs[2].mat, regs[1].mat)
        IN /\ Square(CA, N)
           /\ Square(AC, N)
           /\ \A r \in Rows(CA), c \in Cols(CA) :
                 Entry(CA, r, c) + Entry(AC, r, c) = IF i = j /\ r = c THEN 1 ELSE 0

C1_Witness ==
    /\ Len(regs) = 2
    /\ Returned(1, "creation")
    /\ Returned(2, "annihilation")
    /\ regs[1].args = <<3, 2>>
    /\ regs[2].args = <<3, 2>>
    /\ Nonzeros(MatMul(regs[1].mat, regs[2].mat)) # {}
    /\ Nonzeros(MatMul(regs[2].mat, regs[1].mat)) # {}

(***************************************************************************)
(* C2.                                                                     *)
(***************************************************************************)
\* C2: for N >= 2 and i # j in [1, N], creation(N,i)*creation(N,j) +
\* creation(N,j)*creation(N,i) is the 2^N x 2^N zero matrix: the two products
\* have the same nonzero positions with opposite signs.
C2_CreationAnticommute ==
    (/\ Len(regs) = 2
     /\ Returned(1, "creation")
     /\ Returned(2, "creation")
     /\ regs[1].args[2] # regs[2].args[2]) =>
        LET N  == regs[1].args[1]
            IJ == MatMul(regs[1].mat, regs[2].mat)
            JI == MatMul(regs[2].mat, regs[1].mat)
        IN /\ Square(IJ, N)
           /\ Square(JI, N)
           /\ \A r \in Rows(IJ), c \in Cols(IJ) :
                 /\ Entry(IJ, r, c) + Entry(JI, r, c) = 0
                 /\ Entry(IJ, r, c) = 0 - Entry(JI, r, c)

C2_Witness ==
    /\ Len(regs) = 2
    /\ Returned(1, "creation")
    /\ Returned(2, "creation")
    /\ regs[1].args = <<3, 1>>
    /\ regs[2].args = <<3, 3>>
    /\ Entry(MatMul(regs[1].mat, regs[2].mat), 5, 0) = -1
    /\ Entry(MatMul(regs[2].mat, regs[1].mat), 5, 0) = 1

(***************************************************************************)
(* C3.                                                                     *)
(***************************************************************************)
\* C3: for N >= 1 and i in [1, N], creation(N,i) is 2^N x 2^N; a column c
\* with bit i-1 unset has exactly one nonzero entry, at row c | (1 << (i-1)),
\* which is +1 or -1 and is the sign of the parity of the bits i .. N-1 of c;
\* a column c with bit i-1 set is zero.  The matrix has 2^(N-1) nonzero
\* entries, none on the diagonal.
C3_CreationStructure ==
    \A k \in Held :
        (regs[k].op = "creation" /\ ValidArgs(regs[k].args[1], regs[k].args[2])) =>
            LET N == regs[k].args[1]
                i == regs[k].args[2]
                M == regs[k].mat
            IN /\ regs[k].status = "ok"
               /\ M.format = "csc"
               /\ Square(M, N)
               /\ \A c \in Cols(M) :
                     IF Occupied(c, i)
                     THEN NonzeroRows(M, c) = {}
                     ELSE /\ NonzeroRows(M, c) = {c + 2 ^ (i - 1)}
                          /\ Entry(M, c + 2 ^ (i - 1), c) \in {-1, 1}
                          /\ Entry(M, c + 2 ^ (i - 1), c) = WindowParitySign(c, i, N)
               /\ Cardinality(Nonzeros(M)) = 2 ^ (N - 1)
               /\ Len(M.data) = 2 ^ (N - 1)
               /\ \A c \in Cols(M) : Entry(M, c, c) = 0

C3_Witness ==
    /\ Returned(1, "creation")
    /\ regs[1].args = <<3, 2>>
    /\ Entry(regs[1].mat, 6, 4) = -1
    /\ Entry(regs[1].mat, 3, 1) = 1
    /\ NonzeroRows(regs[1].mat, 2) = {}

(***************************************************************************)
(* C4.                                                                     *)
(***************************************************************************)
\* C4 as claimed: creation(2,1) is 4x4 and its only nonzero entries are
\* (row 1, col 0) = +1 and (row 3, col 2) = +1.
C4_AsClaimed ==
    \A k \in Held :
        (regs[k].op = "creation" /\ regs[k].args = <<2, 1>>) =>
            /\ regs[k].status = "ok"
            /\ Square(regs[k].mat, 2)
            /\ Nonzeros(regs[k].mat) = {<<1, 0, 1>>, <<3, 2, 1>>}

\* C4, amended: creation(2,1) is 4x4 and its only nonzero entries are
\* (row 1, col 0) = +1 and (row 3, col 2) = -1: the sign flips for source
\* state 2, where mode 2 is occupied.
C4_Creation21 ==
    \A k \in Held :
        (regs[k].op = "creation" /\ regs[k].args = <<2, 1>>) =>
            /\ regs[k].status = "ok"
            /\ Square(regs[k].mat, 2)
            /\ Nonzeros(regs[k].mat) = {<<1, 0, 1>>, <<3, 2, -1>>}

C4_Witness ==
    /\ Returned(1, "creation")
    /\ regs[1].args = <<2, 1>>
    /\ Entry(regs[1].mat, 3, 2) # 0

(***************************************************************************)
(* C5.                                                                     *)
(***************************************************************************)
\* C5 as claimed: creation(2,2) is 4x4, its only nonzero entries are at
\* (row 2, col 0) and (row 3, col 1), and entry(3,1) = -entry(2,0).
C5_AsClaimed ==
    \A k \in Held :
        (regs[k].op = "creation" /\ regs[k].args = <<2, 2>>) =>
            /\ regs[k].status = "ok"
            /\ Square(regs[k].mat, 2)
            /\ {<<t[1], t[2]>> : t \in Nonzeros(regs[k].mat)} = {<<2, 0>>, <<3, 1>>}
            /\ Entry(regs[k].mat, 3, 1) = 0 - Entry(regs[k].mat, 2, 0)

\* C5, amended: creation(2,2) is 4x4, its only nonzero entries are at
\* (row 2, col 0) and (row 3, col 1), and both are +1: the entry for source
\* state 1 (mode 1 occupied) has the same sign as the entry for source state 0.
C5_Creation22 ==
    \A k \in Held :
        (regs[k].op = "creation" /\ regs[k].args = <<2, 2>>) =>
            /\ regs[k].status = "ok"
            /\ Square(regs[k].mat, 2)
            /\ {<<t[1], t[2]>> : t \in Nonzeros(regs[k].mat)} = {<<2, 0>>, <<3, 1>>}
            /\ Entry(regs[k].mat, 3, 1) = Entry(regs[k].mat, 2, 0)
            /\ Entry(regs[k].mat, 2, 0) = 1

C5_Witness ==
    /\ Returned(1, "creation")
    /\ regs[1].args = <<2, 2>>
    /\ Entry(regs[1].mat, 3, 1) # 0
    /\ Entry(regs[1].mat, 2, 0) # 0

(***************************************************************************)
(* C6.                                                                     *)
(***************************************************************************)
\* C6: for N >= 1 and i in [1, N], transition(N,i,i) is a diagonal
\* 2^N x 2^N matrix whose entry (s,s) is 1 if bit i-1 of s is set and 0
\* otherwise, and transition(N,i,i)*transition(N,i,i) = transition(N,i,i).
C6_NumberOperator ==
    \A k \in Held :
        (/\ regs[k].op = "transition"
         /\ ValidArgs(regs[k].args[1], regs[k].args[2])
         /\ regs[k].args[3] = regs[k].args[2]) =>
            LET N  == regs[k].args[1]
                i  == regs[k].args[2]
                T  == regs[k].mat
                TT == MatMul(T, T)
            IN /\ regs[k].status = "ok"
               /\ Square(T, N)
               /\ \A r \in Rows(T), c \in Cols(T) :
                     Entry(T, r, c) = IF r = c /\ Occupied(c, i) THEN 1 ELSE 0
               /\ Square(TT, N)
               /\ \A r \in Rows(T), c \in Cols(T) : Entry(TT, r, c) = Entry(T, r, c)

C6_Witness ==
    /\ Returned(1, "transition")
    /\ regs[1].args = <<3, 2, 2>>
    /\ Entry(regs[1].mat, 6, 6) = 1
    /\ Entry(regs[1].mat, 5, 5) = 0

(***************************************************************************)
(* C7.                                                                     *)
(***************************************************************************)
\* C7: for N >= 1 and i in [1, N], creation(N,i)*creation(N,i) is the
\* 2^N x 2^N zero matrix.
C7_Nilpotent ==
    \A k \in Held :
        (regs[k].op = "creation" /\ ValidArgs(regs[k].args[1], regs[k].args[2])) =>
            /\ regs[k].status = "ok"
            /\ Square(MatMul(regs[k].mat, regs[k].mat), regs[k].args[1])
            /\ Nonzeros(MatMul(regs[k].mat, regs[k].mat)) = {}

C7_Witness ==
    /\ Returned(1, "creation")
    /\ regs[1].args = <<3, 3>>
    /\ Nonzeros(regs[1].mat) # {}
    /\ Nonzeros(MatMul(regs[1].mat, regs[1].mat)) = {}

(***************************************************************************)
(* C9.                                                                     *)
(***************************************************************************)
InvalidArgs(N, i) == N <= 0 \/ i <= 0 \/ i > N

\* C9 as claimed: for basis_size <= 0 or state_index outside
\* [1, basis_size], creation raises no error and returns a matrix.
C9_AsClaimed ==
    \A k \in Held :
        (regs[k].op = "creation" /\ InvalidArgs(regs[k].args[1], regs[k].args[2])) =>
            /\ regs[k].status = "ok"
            /\ regs[k].mat.format = "csc"

\* C9, amended: for basis_size <= 0 or state_index outside [1, basis_size],
\* creation returns no matrix but raises an error: for basis_size < 0 a
\* TypeError (2**basis_size is no integer), or a ValueError if state_index
\* <= 0 as well; for basis_size >= 0 a ValueError if state_index <= 0 (the
\* shift 1 << (state_index-1) has a negative count) and an IndexError at the
\* first write if state_index > basis_size (row 0 | mask is outside the
\* matrix), before any entry is stored.
C9_InvalidArgsRaise ==
    /\ \A k \in Held :
          (regs[k].op = "creation" /\ InvalidArgs(regs[k].args[1], regs[k].args[2])) =>
              /\ regs[k].status = "raised"
              /\ regs[k].mat = NoMatrix
              /\ regs[k].exc \in
                    IF regs[k].args[1] < 0
                    THEN IF regs[k].args[2] <= 0 THEN {"TypeError", "ValueError"}
                                                 ELSE {"TypeError"}
                    ELSE IF regs[k].args[2] <= 0 THEN {"ValueError"}
                                                 ELSE {"IndexError"}
    /\ (call.op = "creation" /\ InvalidArgs(call.args[1], call.args[2])) =>
          /\ pc # "creation_53"
          /\ ~(pc = "return" /\ stack = <<"client">>)
          /\ temp_matrix.format = "dok" => temp_matrix.d = <<>>

C9_Witness ==
    /\ Len(regs) = 1
    /\ regs[1].op = "creation"
    /\ regs[1].args = <<2, 3>>
    /\ regs[1].status = "raised"
    /\ regs[1].exc = "IndexError"

(***************************************************************************)
(* C10.                                                                    *)
(***************************************************************************)
\* the occupied modes of c strictly between modes o and i
Between(c, o, i) == {m \in (Min(o, i) + 1) .. (Max(o, i) - 1) : Occupied(c, m)}

\* C10: for N >= 2 and o # i in [1, N], column c of transition(N,o,i) has
\* exactly one nonzero entry if bit i-1 of c is set and bit o-1 of c is
\* unset, at row (c with bit i-1 cleared and bit o-1 set), and none otherwise;
\* the entry is -1 if the number of occupied modes of c strictly between o
\* and i is odd, and +1 if it is even.
C10_TransitionDirect ==
    \A k \in Held :
        (/\ regs[k].op = "transition"
         /\ ValidArgs(regs[k].args[1], regs[k].args[2])
         /\ ValidArgs(regs[k].args[1], regs[k].args[3])
         /\ regs[k].args[2] # regs[k].args[3]) =>
            LET N == regs[k].args[1]
                o == regs[k].args[2]
                i == regs[k].args[3]
                T == regs[k].mat
            IN /\ regs[k].status = "ok"
               /\ Square(T, N)
               /\ \A c \in Cols(T) :
                     IF Occupied(c, i) /\ ~Occupied(c, o)
                     THEN LET r == c - 2 ^ (i - 1) + 2 ^ (o - 1)
                          IN /\ NonzeroRows(T, c) = {r}
                             /\ Entry(T, r, c) =
                                   IF Cardinality(Between(c, o, i)) % 2 = 1 THEN -1 ELSE 1
                     ELSE NonzeroRows(T, c) = {}

C10_Witness ==
    /\ Returned(1, "transition")
    /\ regs[1].args = <<3, 3, 1>>
    /\ Entry(regs[1].mat, 6, 3) = -1
    /\ Entry(regs[1].mat, 4, 1) = 1

(***************************************************************************)
(* C8.                                                                     *)
(***************************************************************************)
PhaseResultCorrect(r) ==
    /\ r.status = "ok"
    /\ r.int = WindowParitySign(r.args[1], Min(r.args[2], r.args[3]),
                                Max(r.args[2], r.args[3]))

PhaseResults == {k \in DOMAIN regs : regs[k].op = "phase"}

\* C8: every call _anticommutation_factor(s, a, b) with s, a, b >= 0
\* terminates, and returns -1 if the number of set bits of s at positions
\* min(a,b) .. max(a,b)-1 is odd and +1 if it is even; two calls with a and b
\* swapped, or with states that differ outside the window only, return the
\* same value.
C8_PhaseParity ==
    /\ [](\A k \in PhaseResults : PhaseResultCorrect(regs[k]))
    /\ [](Len(regs) = 2 /\ PhaseResults = {1, 2} => regs[1].int = regs[2].int)
    /\ (call.op = "phase") ~> (call.op = "none" /\ regs # <<>> /\ regs[Len(regs)].op = "phase")

C8_Witness ==
    /\ Len(regs) = 2
    /\ PhaseResults = {1, 2}
    /\ regs[1].args = <<5, 3, 0>>
    /\ regs[2].args = <<5, 0, 3>>
    /\ regs[1].int = 1
    /\ regs[2].int = 1

====
